---- MODULE Spec2Model ----
(***************************************************************************)
(* A model of src/render.rs of sokoban-rs: the Drawer, the Tile atlas and  *)
(* the shadow-flag computation.                                            *)
(*                                                                         *)
(* Level, Position and Direction live in game.rs, which is not part of the *)
(* source tree at hand; they are modelled from their documented contract   *)
(* (extents, the four predicates answering false off the grid, and a       *)
(* one-step neighbour).                                                    *)
(*                                                                         *)
(* Four specifications share the variables:                                *)
(*   Spec        Drawer::draw, step by step, on a small level              *)
(*   SpecShadow  get_shadow_flags on every wall layout of a small grid     *)
(*   SpecSize    get_rendering_size, get_scaled_rendering_size and         *)
(*               get_centered_image_rect on a range of extents and screens *)
(*   SpecTile    Drawer::draw_tile's lookup: Tile::location, get_tile_rect *)
(***************************************************************************)
EXTENDS Integers, Sequences, FiniteSets

VARIABLES
    level,
    screen_size,
    supported,
    pc,
    pos,
    flags,
    tile,
    loc,
    tile_rect,
    fullsize,
    scaled_size,
    final_rect,
    target,
    activated,
    failure,
    after_failure,
    tiles_drawn,
    frame_ops

vars == <<level, screen_size, supported, pc, pos, flags, tile, loc, tile_rect,
          fullsize, scaled_size, final_rect, target, activated, failure,
          after_failure, tiles_drawn, frame_ops>>

(***************************************************************************)
(* Bounds of the model.                                                    *)
(***************************************************************************)
\* extents of the levels of SpecSize
MaxCols == 5
MaxRows == 4
\* extents of the wall layouts of SpecShadow
ShadowCols == 3
ShadowRows == 3
\* extents of the levels drawn by Spec
DrawCols == 2
DrawRows == 2

(***************************************************************************)
(* Option<T>                                                               *)
(***************************************************************************)
None == <<>>
Some(v) == <<v>>

(***************************************************************************)
(* Tile geometry.                                                          *)
(***************************************************************************)
Tile_width == 101
Tile_height == 171
Tile_effective_height == 83
Tile_offset == 40

(***************************************************************************)
(* bitflags ShadowFlags.  A mask is the set of the single-bit values it    *)
(* holds; | is union, intersects is a non-empty intersection.              *)
(***************************************************************************)
N_EDGE == 1
S_EDGE == 2
E_EDGE == 4
W_EDGE == 8
NE_CORNER == 16
NW_CORNER == 32
SE_CORNER == 64
SW_CORNER == 128

AllFlags == {N_EDGE, S_EDGE, E_EDGE, W_EDGE, NE_CORNER, NW_CORNER, SE_CORNER, SW_CORNER}
ShadowFlags == SUBSET AllFlags
ShadowFlags_empty == {}
intersects(a, b) == a \cap b # {}
contains(a, b) == b \subseteq a

(***************************************************************************)
(* game.rs: Position, Direction, Level.                                    *)
(***************************************************************************)
Position_new(row, column) == [row |-> row, column |-> column]

neighboor(p, dir) ==
    CASE dir = "Up"    -> Position_new(p.row - 1, p.column)
      [] dir = "Down"  -> Position_new(p.row + 1, p.column)
      [] dir = "Left"  -> Position_new(p.row, p.column - 1)
      [] dir = "Right" -> Position_new(p.row, p.column + 1)

extents(lv) == <<lv.cols, lv.rows>>
is_wall(lv, p) == p \in lv.walls
is_box(lv, p) == p \in lv.boxes
is_square(lv, p) == p \in lv.squares
is_player(lv, p) == lv.player = Some(p)

Cells(cols, rows) == {Position_new(r, c) : r \in 0..(rows - 1), c \in 0..(cols - 1)}

(***************************************************************************)
(* get_shadow_flags                                                        *)
(***************************************************************************)
\* if cond { flags = flags | f; }
set_if(fl, cond, f) == IF cond THEN fl \cup {f} ELSE fl

\* a slip: a corner is suppressed only when both adjacent edges are set
get_shadow_flags_contains(lv, p) ==
    LET north == neighboor(p, "Up")
        south == neighboor(p, "Down")
        west  == neighboor(p, "Left")
        east  == neighboor(p, "Right")
        f0 == ShadowFlags_empty
        f1 == set_if(f0, is_wall(lv, north), N_EDGE)
        f2 == set_if(f1, is_wall(lv, south), S_EDGE)
        f3 == set_if(f2, is_wall(lv, west), W_EDGE)
        f4 == set_if(f3, is_wall(lv, east), E_EDGE)
        f5 == set_if(f4, is_wall(lv, neighboor(north, "Right"))
                             /\ ~contains(f4, {N_EDGE, E_EDGE}), NE_CORNER)
        f6 == set_if(f5, is_wall(lv, neighboor(north, "Left"))
                             /\ ~contains(f5, {N_EDGE, W_EDGE}), NW_CORNER)
        f7 == set_if(f6, is_wall(lv, neighboor(south, "Right"))
                             /\ ~contains(f6, {S_EDGE, E_EDGE}), SE_CORNER)
        f8 == set_if(f7, is_wall(lv, neighboor(south, "Left"))
                             /\ ~contains(f7, {S_EDGE, W_EDGE}), SW_CORNER)
    IN  f8

\* a slip: the east and west neighbours are taken the wrong way round
get_shadow_flags_mirrored(lv, p) ==
    LET north == neighboor(p, "Up")
        south == neighboor(p, "Down")
        west  == neighboor(p, "Right")
        east  == neighboor(p, "Left")
        f0 == ShadowFlags_empty
        f1 == set_if(f0, is_wall(lv, north), N_EDGE)
        f2 == set_if(f1, is_wall(lv, south), S_EDGE)
        f3 == set_if(f2, is_wall(lv, west), W_EDGE)
        f4 == set_if(f3, is_wall(lv, east), E_EDGE)
        f5 == set_if(f4, is_wall(lv, neighboor(north, "Right"))
                             /\ ~intersects(f4, {N_EDGE, E_EDGE}), NE_CORNER)
        f6 == set_if(f5, is_wall(lv, neighboor(north, "Left"))
                             /\ ~intersects(f5, {N_EDGE, W_EDGE}), NW_CORNER)
        f7 == set_if(f6, is_wall(lv, neighboor(south, "Right"))
                             /\ ~intersects(f6, {S_EDGE, E_EDGE}), SE_CORNER)
        f8 == set_if(f7, is_wall(lv, neighboor(south, "Left"))
                             /\ ~intersects(f7, {S_EDGE, W_EDGE}), SW_CORNER)
    IN  f8

get_shadow_flags(lv, p) ==
    LET north == neighboor(p, "Up")
        south == neighboor(p, "Down")
        west  == neighboor(p, "Left")
        east  == neighboor(p, "Right")
        f0 == ShadowFlags_empty
        f1 == set_if(f0, is_wall(lv, north), N_EDGE)
        f2 == set_if(f1, is_wall(lv, south), S_EDGE)
        f3 == set_if(f2, is_wall(lv, west), W_EDGE)
        f4 == set_if(f3, is_wall(lv, east), E_EDGE)
        f5 == set_if(f4, is_wall(lv, neighboor(north, "Right"))
                             /\ ~intersects(f4, {N_EDGE, E_EDGE}), NE_CORNER)
        f6 == set_if(f5, is_wall(lv, neighboor(north, "Left"))
                             /\ ~intersects(f5, {N_EDGE, W_EDGE}), NW_CORNER)
        f7 == set_if(f6, is_wall(lv, neighboor(south, "Right"))
                             /\ ~intersects(f6, {S_EDGE, E_EDGE}), SE_CORNER)
        f8 == set_if(f7, is_wall(lv, neighboor(south, "Left"))
                             /\ ~intersects(f7, {S_EDGE, W_EDGE}), SW_CORNER)
    IN  f8

(***************************************************************************)
(* Drawer::get_rendering_size.  The extents of the model stay far below    *)
(* the width of u32, so the products are the mathematical ones.            *)
(***************************************************************************)
\* a slip: every row is given the full tile height, the overlap is forgotten
get_rendering_size_no_overlap(lv) ==
    LET w == extents(lv)[1]
        h == extents(lv)[2]
        width == w * Tile_width
        height == IF h > 0 THEN Tile_height + (h - 1) * Tile_height ELSE 0
    IN  <<width, height>>

\* a slip: an empty level of either kind is given no height
get_rendering_size_empty_guard(lv) ==
    LET w == extents(lv)[1]
        h == extents(lv)[2]
        width == w * Tile_width
        height == IF h > 0 /\ w > 0
                  THEN Tile_height + (h - 1) * Tile_effective_height
                  ELSE 0
    IN  <<width, height>>

get_rendering_size(lv) ==
    LET w == extents(lv)[1]
        h == extents(lv)[2]
        width == w * Tile_width
        height == IF h > 0
                  THEN Tile_height + (h - 1) * Tile_effective_height
                  ELSE 0
    IN  <<width, height>>

(***************************************************************************)
(* f64 as the code uses it: a quotient of two u32 values, +infinity or     *)
(* NaN.  A number is kept as the exact quotient n/d; the rounding of the   *)
(* division shows in scale below.                                          *)
(***************************************************************************)
f64_num(n, d) == [kind |-> "num", n |-> n, d |-> d]
f64_inf == [kind |-> "inf", n |-> 1, d |-> 0]
f64_nan == [kind |-> "nan", n |-> 0, d |-> 0]
f64_one == f64_num(1, 1)

\* (a as f64) / (b as f64)
f64_div(a, b) ==
    IF b = 0 THEN (IF a = 0 THEN f64_nan ELSE f64_inf) ELSE f64_num(a, b)

\* x <= y for two values that are not NaN
f64_le(x, y) ==
    IF y.kind = "inf" THEN TRUE
    ELSE IF x.kind = "inf" THEN FALSE
    ELSE x.n * y.d <= y.n * x.d

\* f64::min returns the other argument when one is NaN
f64_min(x, y) ==
    IF x.kind = "nan" THEN y
    ELSE IF y.kind = "nan" THEN x
    ELSE IF f64_le(x, y) THEN x ELSE y

RECURSIVE GCD(_, _)
GCD(a, b) == IF b = 0 THEN a ELSE GCD(b, a % b)

RECURSIVE IsPowerOfTwo(_)
IsPowerOfTwo(n) == IF n = 1 THEN TRUE ELSE IF n % 2 # 0 THEN FALSE ELSE IsPowerOfTwo(n \div 2)

\* the quotient n/d is a binary fraction, so the f64 division is exact
f64_exact(r) == IsPowerOfTwo(r.d \div GCD(r.n, r.d))

\* (ratio * (sz as f64)).floor() as u32, for 0 <= ratio <= 1.  When the
\* division that made ratio was rounded and the exact product is an integer,
\* the f64 product lands on that integer or just below it, and floor gives
\* the integer or its predecessor; otherwise floor gives the exact floor.
scale(ratio, sz) ==
    LET p == ratio.n * sz
        q == p \div ratio.d
    IN  IF p % ratio.d = 0 /\ q > 0 /\ ~f64_exact(ratio) THEN {q - 1, q} ELSE {q}

(***************************************************************************)
(* Drawer::get_scaled_rendering_size: the sizes the call can return.       *)
(***************************************************************************)
\* a slip: the ratio is not capped at 1.0
get_scaled_rendering_size_uncapped(screen, lv) ==
    LET render_size == get_rendering_size(lv)
        width_ratio == f64_div(screen[1], render_size[1])
        height_ratio == f64_div(screen[2], render_size[2])
        m == f64_min(width_ratio, height_ratio)
        ratio == IF m.kind = "num" THEN m ELSE f64_one
    IN  scale(ratio, render_size[1]) \X scale(ratio, render_size[2])

\* the ratio of get_scaled_rendering_size
scaling_ratio(screen, lv) ==
    LET render_size == get_rendering_size(lv)
        width_ratio == f64_div(screen[1], render_size[1])
        height_ratio == f64_div(screen[2], render_size[2])
    IN  f64_min(f64_one, f64_min(width_ratio, height_ratio))

get_scaled_rendering_size(screen, lv) ==
    LET render_size == get_rendering_size(lv)
        ratio == scaling_ratio(screen, lv)
    IN  scale(ratio, render_size[1]) \X scale(ratio, render_size[2])

(***************************************************************************)
(* Drawer::get_centered_image_rect.  screen - img is a u32 subtraction:    *)
(* when img is the larger it panics in a build with overflow checks and    *)
(* wraps in one without, and the wrapped value read as i32 is the negative *)
(* difference.  i32 division truncates towards zero.                       *)
(***************************************************************************)
Rect_new_unwrap(x, y, w, h) == [x |-> x, y |-> y, w |-> w, h |-> h]

i32_div(a, b) == IF a >= 0 THEN a \div b ELSE -((-a) \div b)

sub_overflows(a, b) == b > a

\* a slip: only the image size is halved
get_centered_image_rect_precedence(screen, img_size) ==
    LET x == screen[1] - i32_div(img_size[1], 2)
        y == screen[2] - i32_div(img_size[2], 2)
        rect == Some(Rect_new_unwrap(x, y, img_size[1], img_size[2]))
    IN  IF sub_overflows(screen[1], img_size[1]) \/ sub_overflows(screen[2], img_size[2])
        THEN {[panicked |-> TRUE, rect |-> None], [panicked |-> FALSE, rect |-> rect]}
        ELSE {[panicked |-> FALSE, rect |-> rect]}

get_centered_image_rect(screen, img_size) ==
    LET x == i32_div(screen[1] - img_size[1], 2)
        y == i32_div(screen[2] - img_size[2], 2)
        rect == Some(Rect_new_unwrap(x, y, img_size[1], img_size[2]))
    IN  IF sub_overflows(screen[1], img_size[1]) \/ sub_overflows(screen[2], img_size[2])
        THEN {[panicked |-> TRUE, rect |-> None], [panicked |-> FALSE, rect |-> rect]}
        ELSE {[panicked |-> FALSE, rect |-> rect]}

(***************************************************************************)
(* enum Tile.  Every tile carries a mask; it is empty unless the tile is a *)
(* Shadow.                                                                 *)
(***************************************************************************)
Tile_Floor == [kind |-> "Floor", flags |-> {}]
Tile_Wall == [kind |-> "Wall", flags |-> {}]
Tile_Rock == [kind |-> "Rock", flags |-> {}]
Tile_Square == [kind |-> "Square", flags |-> {}]
Tile_Player == [kind |-> "Player", flags |-> {}]
Tile_Shadow(f) == [kind |-> "Shadow", flags |-> f]

Tiles ==
    {Tile_Floor, Tile_Wall, Tile_Rock, Tile_Square, Tile_Player}
        \cup {Tile_Shadow(f) : f \in ShadowFlags}

\* the tiles Drawer::draw_fullsize asks for
SupportedTiles ==
    {Tile_Floor, Tile_Wall, Tile_Rock, Tile_Square, Tile_Player}
        \cup {Tile_Shadow({f}) : f \in AllFlags}

(***************************************************************************)
(* Tile::location                                                          *)
(***************************************************************************)
\* a slip: Rock is given the cell of Square
Tile_location_rock_on_square(t) ==
    CASE t = Tile_Floor -> Some(<<0, 0>>)
      [] t = Tile_Wall -> Some(<<0, 2>>)
      [] t = Tile_Rock -> Some(<<1, 0>>)
      [] t = Tile_Square -> Some(<<1, 0>>)
      [] t = Tile_Player -> Some(<<3, 0>>)
      [] t = Tile_Shadow({N_EDGE}) -> Some(<<4, 0>>)
      [] t = Tile_Shadow({S_EDGE}) -> Some(<<5, 0>>)
      [] t = Tile_Shadow({E_EDGE}) -> Some(<<0, 1>>)
      [] t = Tile_Shadow({W_EDGE}) -> Some(<<1, 1>>)
      [] t = Tile_Shadow({NE_CORNER}) -> Some(<<2, 1>>)
      [] t = Tile_Shadow({NW_CORNER}) -> Some(<<3, 1>>)
      [] t = Tile_Shadow({SE_CORNER}) -> Some(<<4, 1>>)
      [] t = Tile_Shadow({SW_CORNER}) -> Some(<<5, 1>>)
      [] OTHER -> None

Tile_location(t) ==
    CASE t = Tile_Floor -> Some(<<0, 0>>)
      [] t = Tile_Wall -> Some(<<0, 2>>)
      [] t = Tile_Rock -> Some(<<2, 0>>)
      [] t = Tile_Square -> Some(<<1, 0>>)
      [] t = Tile_Player -> Some(<<3, 0>>)
      [] t = Tile_Shadow({N_EDGE}) -> Some(<<4, 0>>)
      [] t = Tile_Shadow({S_EDGE}) -> Some(<<5, 0>>)
      [] t = Tile_Shadow({E_EDGE}) -> Some(<<0, 1>>)
      [] t = Tile_Shadow({W_EDGE}) -> Some(<<1, 1>>)
      [] t = Tile_Shadow({NE_CORNER}) -> Some(<<2, 1>>)
      [] t = Tile_Shadow({NW_CORNER}) -> Some(<<3, 1>>)
      [] t = Tile_Shadow({SE_CORNER}) -> Some(<<4, 1>>)
      [] t = Tile_Shadow({SW_CORNER}) -> Some(<<5, 1>>)
      [] OTHER -> None

(***************************************************************************)
(* Tile::get_coordinates                                                   *)
(***************************************************************************)
\* a slip: the rows are stacked by the full tile height
Tile_get_coordinates_full_height(p) ==
    LET x == Tile_width * p.column
        y == Tile_height * p.row
    IN  <<x, y>>

Tile_get_coordinates(p) ==
    LET x == Tile_width * p.column
        y == Tile_effective_height * p.row
    IN  <<x, y>>

(***************************************************************************)
(* Drawer::get_tile_rect                                                   *)
(***************************************************************************)
get_tile_rect(col, row) ==
    LET x == col * Tile_width
        y == row * Tile_height
    IN  Some(Rect_new_unwrap(x, y, Tile_width, Tile_height))

(***************************************************************************)
(* Drawer::draw_tile: the copy it issues, or None when the lookup misses   *)
(* and the call panics.                                                    *)
(***************************************************************************)
draw_tile(t, x, y) ==
    LET l == Tile_location(t)
    IN  IF l = None THEN None
        ELSE Some([tile |-> t,
                   src |-> get_tile_rect(l[1][1], l[1][2]),
                   dst |-> Some(Rect_new_unwrap(x, y, Tile_width, Tile_height))])

(***************************************************************************)
(* Drawer::draw_fullsize: the draw_tile calls it makes, in order, each     *)
(* with the cell it is made for.                                           *)
(***************************************************************************)
FlagOrder == <<N_EDGE, S_EDGE, E_EDGE, W_EDGE, NE_CORNER, NW_CORNER, SE_CORNER, SW_CORNER>>

TileCall(t, x, y, p) == [tile |-> t, x |-> x, y |-> y, pos |-> p]

\* for f in &[N_EDGE, ..] { if flags.contains(*f) { self.draw_tile(Tile::Shadow(*f), x, y); } }
\* from the k-th flag of the list on
RECURSIVE draw_shadows_from(_, _, _, _, _)
draw_shadows_from(fl, x, y, p, k) ==
    IF k > Len(FlagOrder) THEN <<>>
    ELSE (IF contains(fl, {FlagOrder[k]})
          THEN <<TileCall(Tile_Shadow({FlagOrder[k]}), x, y, p)>>
          ELSE <<>>) \o draw_shadows_from(fl, x, y, p, k + 1)

draw_fullsize_cell(lv, p) ==
    LET xy == Tile_get_coordinates(p)
        x == xy[1]
        y == xy[2]
        floor == IF is_square(lv, p)
                 THEN <<TileCall(Tile_Square, x, y, p)>>
                 ELSE <<TileCall(Tile_Floor, x, y, p)>>
        fl == get_shadow_flags(lv, p)
        shadows == draw_shadows_from(fl, x, y, p, 1)
        z == y - Tile_offset
        wall == IF is_wall(lv, p) THEN <<TileCall(Tile_Wall, x, z, p)>> ELSE <<>>
        rock == IF is_box(lv, p) THEN <<TileCall(Tile_Rock, x, z, p)>> ELSE <<>>
        player == IF is_player(lv, p) THEN <<TileCall(Tile_Player, x, z, p)>> ELSE <<>>
    IN  floor \o shadows \o wall \o rock \o player

\* the calls for the cells from the k-th on, rows outside, columns inside
RECURSIVE draw_fullsize_from(_, _)
draw_fullsize_from(lv, k) ==
    LET cols == extents(lv)[1]
        rows == extents(lv)[2]
    IN  IF k >= cols * rows THEN <<>>
        ELSE draw_fullsize_cell(lv, Position_new(k \div cols, k % cols))
                 \o draw_fullsize_from(lv, k + 1)

draw_fullsize(lv) == draw_fullsize_from(lv, 0)

\* the number of calls made before the first one that panics, and whether one does
RECURSIVE CallsBeforePanic(_, _)
CallsBeforePanic(calls, k) ==
    IF k > Len(calls) THEN Len(calls)
    ELSE IF draw_tile(calls[k].tile, calls[k].x, calls[k].y) = None THEN k - 1
    ELSE CallsBeforePanic(calls, k + 1)

(***************************************************************************)
(* Values the variables hold while a specification does not use them.      *)
(***************************************************************************)
NoLevel == [cols |-> 0, rows |-> 0, walls |-> {}, boxes |-> {}, squares |-> {}, player |-> None]
NoPos == Position_new(0, 0)
NoTile == [kind |-> "Floor", flags |-> {}]

(***************************************************************************)
(* SpecShadow: get_shadow_flags applied to a cell of a wall layout.        *)
(***************************************************************************)
WallLevel(c, r, w) ==
    [cols |-> c, rows |-> r, walls |-> w, boxes |-> {}, squares |-> {}, player |-> None]

InitShadow ==
    /\ \E c \in 1..ShadowCols, r \in 1..ShadowRows :
          \E w \in SUBSET Cells(c, r) : level = WallLevel(c, r, w)
    /\ pos \in Cells(level.cols, level.rows)
    /\ pc = "shadow_call"
    /\ flags = ShadowFlags_empty
    /\ screen_size = <<0, 0>>
    /\ supported = TRUE
    /\ tile = NoTile
    /\ loc = None
    /\ tile_rect = None
    /\ fullsize = <<0, 0>>
    /\ scaled_size = <<0, 0>>
    /\ final_rect = None
    /\ target = "default"
    /\ activated = FALSE
    /\ failure = "none"
    /\ after_failure = {}
    /\ tiles_drawn = <<>>
    /\ frame_ops = <<>>

GetShadowFlags ==
    /\ pc = "shadow_call"
    /\ flags' = get_shadow_flags(level, pos)
    /\ pc' = "shadow_done"
    /\ UNCHANGED <<level, screen_size, supported, pos, tile, loc, tile_rect, fullsize,
                   scaled_size, final_rect, target, activated, failure, after_failure,
                   tiles_drawn, frame_ops>>

NextShadow == GetShadowFlags

SpecShadow == InitShadow /\ [][NextShadow]_vars

(***************************************************************************)
(* Claims about get_shadow_flags.                                          *)
(***************************************************************************)
\* C1: the mask returned by get_shadow_flags never holds a corner flag
\* together with one of its two adjacent edge flags.
C1_CornerExcludesEdges ==
    pc = "shadow_done" =>
        /\ NE_CORNER \in flags => (N_EDGE \notin flags /\ E_EDGE \notin flags)
        /\ NW_CORNER \in flags => (N_EDGE \notin flags /\ W_EDGE \notin flags)
        /\ SE_CORNER \in flags => (S_EDGE \notin flags /\ E_EDGE \notin flags)
        /\ SW_CORNER \in flags => (S_EDGE \notin flags /\ W_EDGE \notin flags)

\* a corner is returned next to an edge that is not adjacent to it, while
\* another diagonal wall is suppressed by its edge
C1_Witness ==
    /\ pc = "shadow_done"
    /\ NE_CORNER \in flags
    /\ S_EDGE \in flags
    /\ is_wall(level, Position_new(pos.row + 1, pos.column + 1))
    /\ SE_CORNER \notin flags

WallAt(lv, p, dr, dc) == Position_new(p.row + dr, p.column + dc) \in lv.walls

ReferenceMask(lv, p) ==
    LET n == WallAt(lv, p, -1, 0)
        s == WallAt(lv, p, 1, 0)
        e == WallAt(lv, p, 0, 1)
        w == WallAt(lv, p, 0, -1)
    IN  {f \in AllFlags :
            \/ f = N_EDGE /\ n
            \/ f = S_EDGE /\ s
            \/ f = E_EDGE /\ e
            \/ f = W_EDGE /\ w
            \/ f = NE_CORNER /\ WallAt(lv, p, -1, 1) /\ ~n /\ ~e
            \/ f = NW_CORNER /\ WallAt(lv, p, -1, -1) /\ ~n /\ ~w
            \/ f = SE_CORNER /\ WallAt(lv, p, 1, 1) /\ ~s /\ ~e
            \/ f = SW_CORNER /\ WallAt(lv, p, 1, -1) /\ ~s /\ ~w}

NoWallAround(lv, p) ==
    \A dr \in {-1, 0, 1}, dc \in {-1, 0, 1} : (dr # 0 \/ dc # 0) => ~WallAt(lv, p, dr, dc)

CentreWall3x3 == WallLevel(3, 3, {Position_new(1, 1)})

\* C2: get_shadow_flags returns exactly the reference mask (an edge flag iff
\* the cardinal neighbour is a wall, a corner flag iff the diagonal neighbour
\* is a wall and neither adjacent edge flag is set); the mask is empty when
\* none of the 8 surrounding cells is a wall; on the 3x3 grid with one wall at
\* (1,1) the mask at (0,0) is {SE_CORNER} and the mask at (1,0) is {E_EDGE}.
C2_ReferenceMask ==
    pc = "shadow_done" =>
        /\ flags = ReferenceMask(level, pos)
        /\ NoWallAround(level, pos) => flags = {}
        /\ (level = CentreWall3x3 /\ pos = Position_new(0, 0)) => flags = {SE_CORNER}
        /\ (level = CentreWall3x3 /\ pos = Position_new(1, 0)) => flags = {E_EDGE}

C2_Witness ==
    /\ pc = "shadow_done"
    /\ level = CentreWall3x3
    /\ pos = Position_new(0, 0)
    /\ flags = {SE_CORNER}

(***************************************************************************)
(* SpecSize: the three size computations, one after the other, for a level *)
(* of given extents on a screen of given size.                             *)
(***************************************************************************)
ScreenWidths == {0, 1, 29, 100, 101, 150, 202, 640}
ScreenHeights == {0, 1, 100, 171, 254, 480}

SizeLevel(c, r) ==
    [cols |-> c, rows |-> r, walls |-> {}, boxes |-> {}, squares |-> {}, player |-> None]

InitSize ==
    /\ \E c \in 0..MaxCols, r \in 0..MaxRows : level = SizeLevel(c, r)
    /\ screen_size \in ScreenWidths \X ScreenHeights
    /\ pc = "size_call"
    /\ pos = NoPos
    /\ flags = ShadowFlags_empty
    /\ supported = TRUE
    /\ tile = NoTile
    /\ loc = None
    /\ tile_rect = None
    /\ fullsize = <<0, 0>>
    /\ scaled_size = <<0, 0>>
    /\ final_rect = None
    /\ target = "default"
    /\ activated = FALSE
    /\ failure = "none"
    /\ after_failure = {}
    /\ tiles_drawn = <<>>
    /\ frame_ops = <<>>

GetRenderingSize ==
    /\ pc = "size_call"
    /\ fullsize' = get_rendering_size(level)
    /\ pc' = "sized"
    /\ UNCHANGED <<level, screen_size, supported, pos, flags, tile, loc, tile_rect,
                   scaled_size, final_rect, target, activated, failure, after_failure,
                   tiles_drawn, frame_ops>>

GetScaledRenderingSize ==
    /\ pc = "sized"
    /\ scaled_size' \in get_scaled_rendering_size(screen_size, level)
    /\ pc' = "scaled"
    /\ UNCHANGED <<level, screen_size, supported, pos, flags, tile, loc, tile_rect,
                   fullsize, final_rect, target, activated, failure, after_failure,
                   tiles_drawn, frame_ops>>

GetCenteredImageRect ==
    /\ pc = "scaled"
    /\ \E out \in get_centered_image_rect(screen_size, scaled_size) :
          /\ final_rect' = out.rect
          /\ pc' = IF out.panicked THEN "panicked" ELSE "centered"
    /\ UNCHANGED <<level, screen_size, supported, pos, flags, tile, loc, tile_rect,
                   fullsize, scaled_size, target, activated, failure, after_failure,
                   tiles_drawn, frame_ops>>

NextSize == GetRenderingSize \/ GetScaledRenderingSize \/ GetCenteredImageRect

SpecSize == InitSize /\ [][NextSize]_vars

(***************************************************************************)
(* Claims about the size computations.                                     *)
(***************************************************************************)
SizeReturned == pc \in {"sized", "scaled", "centered"}

\* C3 as stated: get_rendering_size returns height 0 whenever the level has
\* cols = 0 or rows = 0.
C3_ZeroExtentZeroHeight ==
    SizeReturned => ((level.cols = 0 \/ level.rows = 0) => fullsize[2] = 0)

\* C3 as amended: the height is 0 exactly when rows = 0, whatever cols is (a
\* level with cols = 0 and rows >= 1 has a non-zero height); the width is 0
\* exactly when cols = 0.
C3_ZeroRowsZeroHeight ==
    SizeReturned =>
        /\ fullsize[2] = 0 <=> level.rows = 0
        /\ fullsize[1] = 0 <=> level.cols = 0

C3_Witness ==
    /\ pc = "sized"
    /\ level.cols = 0
    /\ level.rows = 2
    /\ fullsize = <<0, 254>>

\* C4: get_rendering_size returns width = cols * 101, and height = 0 if
\* rows = 0, otherwise 171 + (rows - 1) * 83; a 5-column, 4-row level yields
\* (505, 420).
C4_RenderingSize ==
    SizeReturned =>
        /\ fullsize[1] = level.cols * 101
        /\ level.rows = 0 => fullsize[2] = 0
        /\ level.rows > 0 => fullsize[2] = 171 + (level.rows - 1) * 83
        /\ (level.cols = 5 /\ level.rows = 4) => fullsize = <<505, 420>>

C4_Witness ==
    /\ pc = "sized"
    /\ level.cols = 5
    /\ level.rows = 4
    /\ fullsize = <<505, 420>>

\* C5: the ratio of get_scaled_rendering_size is never greater than 1 and the
\* scaled size never exceeds the screen size nor the unscaled buffer size in
\* either dimension, zero-width and zero-height rendering sizes included.
C5_ScaledFits ==
    pc \in {"scaled", "centered"} =>
        /\ LET ratio == scaling_ratio(screen_size, level)
           IN  ratio.kind = "num" /\ ratio.n >= 0 /\ ratio.n <= ratio.d
        /\ scaled_size[1] >= 0 /\ scaled_size[2] >= 0
        /\ scaled_size[1] <= screen_size[1]
        /\ scaled_size[2] <= screen_size[2]
        /\ scaled_size[1] <= fullsize[1]
        /\ scaled_size[2] <= fullsize[2]

\* a level larger than the screen is scaled down by the width ratio 202/505
C5_Witness ==
    /\ pc = "scaled"
    /\ fullsize = <<505, 420>>
    /\ screen_size = <<202, 254>>
    /\ scaled_size = <<202, 168>>

Abs(n) == IF n < 0 THEN -n ELSE n

\* C6: for an image size produced by get_scaled_rendering_size, the u32
\* subtractions of get_centered_image_rect do not underflow, the origin is
\* x = (screenWidth - w) / 2, y = (screenHeight - h) / 2, non-negative, and
\* the opposing margins differ by at most one pixel.
C6_Centered ==
    /\ pc # "panicked"
    /\ pc = "centered" =>
        /\ final_rect # None
        /\ LET r == final_rect[1]
               left == r.x
               right == screen_size[1] - (r.x + r.w)
               top == r.y
               bottom == screen_size[2] - (r.y + r.h)
           IN  /\ r.w = scaled_size[1] /\ r.h = scaled_size[2]
               /\ ~sub_overflows(screen_size[1], r.w)
               /\ ~sub_overflows(screen_size[2], r.h)
               /\ r.x >= 0 /\ r.y >= 0
               /\ r.x = (screen_size[1] - r.w) \div 2
               /\ r.y = (screen_size[2] - r.h) \div 2
               /\ Abs(left - right) <= 1
               /\ Abs(top - bottom) <= 1

\* an odd horizontal margin: 640 - 505 = 135 = 67 + 68
C6_Witness ==
    /\ pc = "centered"
    /\ screen_size = <<640, 480>>
    /\ fullsize = <<505, 420>>
    /\ final_rect = Some(Rect_new_unwrap(67, 30, 505, 420))

(***************************************************************************)
(* SpecTile: Drawer::draw_tile's lookup of a tile, step by step.           *)
(***************************************************************************)
InitTile ==
    /\ tile \in Tiles
    /\ pc = "tile_call"
    /\ level = NoLevel
    /\ screen_size = <<0, 0>>
    /\ pos = NoPos
    /\ flags = ShadowFlags_empty
    /\ supported = TRUE
    /\ loc = None
    /\ tile_rect = None
    /\ fullsize = <<0, 0>>
    /\ scaled_size = <<0, 0>>
    /\ final_rect = None
    /\ target = "default"
    /\ activated = FALSE
    /\ failure = "none"
    /\ after_failure = {}
    /\ tiles_drawn = <<>>
    /\ frame_ops = <<>>

\* tile.location().unwrap_or_else(|| panic!(...))
DrawTileLocation ==
    /\ pc = "tile_call"
    /\ loc' = Tile_location(tile)
    /\ pc' = IF loc' = None THEN "panicked" ELSE "located"
    /\ failure' = IF loc' = None THEN "tile_lookup" ELSE failure
    /\ UNCHANGED <<level, screen_size, supported, pos, flags, tile, tile_rect, fullsize,
                   scaled_size, final_rect, target, activated, after_failure,
                   tiles_drawn, frame_ops>>

DrawTileGetTileRect ==
    /\ pc = "located"
    /\ tile_rect' = get_tile_rect(loc[1][1], loc[1][2])
    /\ pc' = "tile_done"
    /\ UNCHANGED <<level, screen_size, supported, pos, flags, tile, loc, fullsize,
                   scaled_size, final_rect, target, activated, failure, after_failure,
                   tiles_drawn, frame_ops>>

NextTile == DrawTileLocation \/ DrawTileGetTileRect

SpecTile == InitTile /\ [][NextTile]_vars

(***************************************************************************)
(* Claims about the tile atlas.                                            *)
(***************************************************************************)
TileLooked == pc \in {"located", "tile_done", "panicked"}

\* the cells of a source image of the given number of tile columns and rows
InAtlas(l, ncols, nrows) ==
    /\ l # None
    /\ l[1][1] \in 0..(ncols - 1)
    /\ l[1][2] \in 0..(nrows - 1)

OneToOne ==
    \A t \in SupportedTiles : Tile_location(t) = loc => t = tile

\* C7 as stated: every supported tile has a location, inside the 6-column x
\* 2-row tile grid of the source image (column in 0..5, row in 0..1), shared
\* with no other supported tile.
C7_InsideSixByTwo ==
    (TileLooked /\ tile \in SupportedTiles) =>
        /\ pc # "panicked"
        /\ InAtlas(loc, 6, 2)
        /\ OneToOne

\* C7 as amended: every supported tile has a location, shared with no other
\* supported tile, with its column in 0..5 and its row in 0..2: the thirteen
\* supported tiles fill the twelve cells of rows 0 and 1 (all but Wall) and
\* the cell (0, 2) (Wall).
C7_InsideSixByThree ==
    (TileLooked /\ tile \in SupportedTiles) =>
        /\ pc # "panicked"
        /\ InAtlas(loc, 6, 3)
        /\ OneToOne
        /\ loc[1][2] = 2 <=> tile = Tile_Wall
        /\ pc = "tile_done" =>
              tile_rect = Some(Rect_new_unwrap(loc[1][1] * 101, loc[1][2] * 171, 101, 171))

C7_Witness ==
    /\ pc = "tile_done"
    /\ tile = Tile_Wall
    /\ loc = Some(<<0, 2>>)
    /\ tile_rect = Some(Rect_new_unwrap(0, 342, 101, 171))

(***************************************************************************)
(* Spec: Drawer::draw on a small level.  The renderer is the environment:  *)
(* it supports render targets or not, create_and_set and reset succeed or  *)
(* fail.  target is the renderer's active render target.                   *)
(*                                                                         *)
(* activated     create_and_set succeeded in this call of draw             *)
(* failure       the first failure of this call of draw, "none" before it  *)
(* after_failure the steps of draw executed after that failure             *)
(* tiles_drawn   the draw_tile calls made, in order                        *)
(* frame_ops     the clear, copy and present calls made, in order, each    *)
(*               with the render target that was active                    *)
(***************************************************************************)
Items(cols, rows) ==
    {<<"none", NoPos>>} \cup ({"box", "square", "player"} \X Cells(cols, rows))

DrawLevel(c, r, w, item) ==
    [cols |-> c, rows |-> r, walls |-> w,
     boxes |-> IF item[1] = "box" THEN {item[2]} ELSE {},
     squares |-> IF item[1] = "square" THEN {item[2]} ELSE {},
     player |-> IF item[1] = "player" THEN Some(item[2]) ELSE None]

DrawScreens == {<<150, 200>>}

\* Drawer::new, and the first call of draw about to start
Init ==
    /\ \E c \in 0..DrawCols, r \in 0..DrawRows :
          \E w \in SUBSET Cells(c, r), item \in Items(c, r) : level = DrawLevel(c, r, w, item)
    /\ screen_size \in DrawScreens
    /\ supported \in BOOLEAN
    /\ pc = "draw_call"
    /\ pos = NoPos
    /\ flags = ShadowFlags_empty
    /\ tile = NoTile
    /\ loc = None
    /\ tile_rect = None
    /\ fullsize = <<0, 0>>
    /\ scaled_size = <<0, 0>>
    /\ final_rect = None
    /\ target = "default"
    /\ activated = FALSE
    /\ failure = "none"
    /\ after_failure = {}
    /\ tiles_drawn = <<>>
    /\ frame_ops = <<>>

Ran(step) == IF failure # "none" THEN after_failure \cup {step} ELSE after_failure

FrameOp(op) == [op |-> op, on |-> target]

\* let fullsize = self.get_rendering_size(&level);
\* let _ = self.renderer.render_target().expect(..).create_and_set(.., fullsize);
DrawCreateAndSet ==
    /\ pc = "draw_call"
    /\ fullsize' = get_rendering_size(level)
    /\ IF ~supported
       THEN /\ pc' = "panicked"
            /\ failure' = "unsupported"
            /\ UNCHANGED <<target, activated>>
       ELSE \E ok \in BOOLEAN :
              /\ target' = IF ok THEN "offscreen" ELSE target
              /\ activated' = ok
              /\ failure' = IF ok THEN failure ELSE "create_and_set"
              /\ pc' = "draw_fullsize"
    /\ UNCHANGED <<level, screen_size, supported, pos, flags, tile, loc, tile_rect,
                   scaled_size, final_rect, after_failure, tiles_drawn, frame_ops>>

\* self.draw_fullsize(level);
DrawFullsize ==
    /\ pc = "draw_fullsize"
    /\ \E calls \in {draw_fullsize(level)} :
       \E n \in {CallsBeforePanic(calls, 1)} :
          /\ tiles_drawn' = SubSeq(calls, 1, n)
          /\ pc' = IF n < Len(calls) THEN "panicked" ELSE "final_rect"
          /\ failure' = IF n < Len(calls) /\ failure = "none" THEN "tile_lookup" ELSE failure
    /\ frame_ops' = Append(frame_ops, FrameOp("draw_fullsize_clear"))
    /\ after_failure' = Ran("draw_fullsize")
    /\ UNCHANGED <<level, screen_size, supported, pos, flags, tile, loc, tile_rect,
                   fullsize, scaled_size, final_rect, target, activated>>

\* let final_rect = self.get_centered_image_rect(self.get_scaled_rendering_size(&level));
DrawFinalRect ==
    /\ pc = "final_rect"
    /\ \E sz \in get_scaled_rendering_size(screen_size, level) :
       \E out \in get_centered_image_rect(screen_size, sz) :
          /\ scaled_size' = sz
          /\ final_rect' = out.rect
          /\ pc' = IF out.panicked THEN "panicked" ELSE "reset"
          /\ failure' = IF out.panicked /\ failure = "none" THEN "overflow" ELSE failure
    /\ after_failure' = Ran("final_rect")
    /\ UNCHANGED <<level, screen_size, supported, pos, flags, tile, loc, tile_rect,
                   fullsize, target, activated, tiles_drawn, frame_ops>>

\* let texture = self.renderer.render_target().unwrap().reset()
\*     .unwrap_or_else(|err| panic!(..)).unwrap_or_else(|| panic!(..));
\* reset fails and leaves the target as it is, or makes the default target
\* the active one and returns the texture that was the target, if any.
DrawReset ==
    /\ pc = "reset"
    /\ \E ok \in BOOLEAN :
          IF ~ok
          THEN /\ pc' = "panicked"
               /\ failure' = IF failure = "none" THEN "reset" ELSE failure
               /\ UNCHANGED target
          ELSE /\ target' = "default"
               /\ pc' = IF target = "offscreen" THEN "clear" ELSE "panicked"
               /\ failure' = IF target # "offscreen" /\ failure = "none"
                             THEN "no_texture" ELSE failure
    /\ after_failure' = Ran("reset")
    /\ UNCHANGED <<level, screen_size, supported, pos, flags, tile, loc, tile_rect,
                   fullsize, scaled_size, final_rect, activated, tiles_drawn, frame_ops>>

\* self.renderer.clear();
DrawClear ==
    /\ pc = "clear"
    /\ frame_ops' = Append(frame_ops, FrameOp("clear"))
    /\ after_failure' = Ran("clear")
    /\ pc' = "copy"
    /\ UNCHANGED <<level, screen_size, supported, pos, flags, tile, loc, tile_rect,
                   fullsize, scaled_size, final_rect, target, activated, failure,
                   tiles_drawn>>

\* self.renderer.copy(&texture, Some(Rect::new_unwrap(0, 0, fullsize.0, fullsize.1)), final_rect);
DrawCopy ==
    /\ pc = "copy"
    /\ frame_ops' = Append(frame_ops, FrameOp("copy"))
    /\ after_failure' = Ran("copy")
    /\ pc' = "present"
    /\ UNCHANGED <<level, screen_size, supported, pos, flags, tile, loc, tile_rect,
                   fullsize, scaled_size, final_rect, target, activated, failure,
                   tiles_drawn>>

\* self.renderer.present();
DrawPresent ==
    /\ pc = "present"
    /\ frame_ops' = Append(frame_ops, FrameOp("present"))
    /\ after_failure' = Ran("present")
    /\ pc' = "done"
    /\ UNCHANGED <<level, screen_size, supported, pos, flags, tile, loc, tile_rect,
                   fullsize, scaled_size, final_rect, target, activated, failure,
                   tiles_drawn>>

\* draw has returned; the driver calls it again for the next frame
DrawAgain ==
    /\ pc = "done"
    /\ pc' = "draw_call"
    /\ fullsize' = <<0, 0>>
    /\ scaled_size' = <<0, 0>>
    /\ final_rect' = None
    /\ activated' = FALSE
    /\ failure' = "none"
    /\ after_failure' = {}
    /\ tiles_drawn' = <<>>
    /\ frame_ops' = <<>>
    /\ UNCHANGED <<level, screen_size, supported, pos, flags, tile, loc, tile_rect, target>>

Next ==
    \/ DrawCreateAndSet
    \/ DrawFullsize
    \/ DrawFinalRect
    \/ DrawReset
    \/ DrawClear
    \/ DrawCopy
    \/ DrawPresent
    \/ DrawAgain

Spec == Init /\ [][Next]_vars

(***************************************************************************)
(* Claims about Drawer::draw.                                              *)
(***************************************************************************)
Exited == pc \in {"done", "panicked"}

VisibleOps == {"clear", "copy", "present"}

\* C8: once the off-screen render target has been activated, the default
\* render target is restored on every exit path of draw, the panicking ones
\* included, and the visible surface is cleared, copied to and presented only
\* with the default target active.
C8_TargetRestoredOnEveryExit ==
    /\ (activated /\ Exited) => target = "default"
    /\ \A i \in 1..Len(frame_ops) :
          frame_ops[i].op \in VisibleOps => frame_ops[i].on = "default"

\* C9: any failure during draw aborts it: no step of draw is executed after
\* render targets turned out unsupported, create_and_set failed, reset failed
\* or a tile lookup missed (draw_fullsize does not run after a failed
\* create_and_set, and the frame is not presented after a failure).
C9_FailureAbortsDraw ==
    /\ after_failure = {}
    /\ failure # "none" => \A i \in 1..Len(frame_ops) : frame_ops[i].op # "present"

ElevatedTiles == {Tile_Wall, Tile_Rock, Tile_Player}

InsideBuffer(x, y) ==
    /\ x >= 0
    /\ y >= 0
    /\ x + 101 <= fullsize[1]
    /\ y + 171 <= fullsize[2]

\* C10 as stated: every destination rectangle drawn by draw_fullsize (floor,
\* square and shadow tiles at (col*101, row*83), wall, box and player tiles at
\* (col*101, row*83 - 40), each 101 x 171) lies wholly inside the buffer
\* rectangle (0, 0, width, height) of get_rendering_size, with no negative
\* coordinate.
C10_EveryRectInsideBuffer ==
    activated => \A i \in 1..Len(tiles_drawn) :
        LET d == tiles_drawn[i]
        IN  /\ d.x = d.pos.column * 101
            /\ d.y = IF d.tile \in ElevatedTiles THEN d.pos.row * 83 - 40 ELSE d.pos.row * 83
            /\ InsideBuffer(d.x, d.y)

\* C10 as amended: the floor, square and shadow rectangles, at
\* (col*101, row*83), lie wholly inside the buffer rectangle; the wall, box
\* and player rectangles, at (col*101, row*83 - 40), lie wholly inside it for
\* every row >= 1, and for row 0 they start at y = -40, 40 pixels above the
\* buffer's top edge, and lie inside it on the three other sides.
C10_RectInsideBufferBelowRow0 ==
    \A i \in 1..Len(tiles_drawn) :
        LET d == tiles_drawn[i]
        IN  /\ d.x = d.pos.column * 101
            /\ d.tile \notin ElevatedTiles =>
                  /\ d.y = d.pos.row * 83
                  /\ InsideBuffer(d.x, d.y)
            /\ d.tile \in ElevatedTiles =>
                  /\ d.y = d.pos.row * 83 - 40
                  /\ d.pos.row >= 1 => InsideBuffer(d.x, d.y)
                  /\ d.pos.row = 0 =>
                        /\ d.y = -40
                        /\ d.x >= 0
                        /\ d.x + 101 <= fullsize[1]
                        /\ d.y + 171 <= fullsize[2]

\* a wall on row 0 next to a floor cell with its shadow, and a box on row 1
C10_Witness ==
    /\ pc = "final_rect"
    /\ level.cols = 2 /\ level.rows = 2
    /\ fullsize = <<202, 254>>
    /\ \E i \in 1..Len(tiles_drawn) :
          tiles_drawn[i] = TileCall(Tile_Wall, 101, -40, Position_new(0, 1))
    /\ \E i \in 1..Len(tiles_drawn) :
          tiles_drawn[i] = TileCall(Tile_Shadow({E_EDGE}), 0, 0, Position_new(0, 0))
    /\ \E i \in 1..Len(tiles_drawn) :
          tiles_drawn[i] = TileCall(Tile_Rock, 0, 43, Position_new(1, 0))

====
